---- MODULE Spec2Model ----
(***************************************************************************)
(* A model of pathspider's Observer (src/pathspider/observer/__init__.py)  *)
(* and of the TCP reference chain (src/pathspider/observer/tcp.py).        *)
(*                                                                         *)
(* The Observer's fields are the variables; every method is an operator    *)
(* from an observer value (a record of the fields) to the observer value   *)
(* it leaves behind, so that methods compose the way the code calls them.  *)
(* Python exceptions are carried in the field exc of that record.          *)
(***************************************************************************)
EXTENDS Integers, Sequences, FiniteSets, TLC

VARIABLES
    chains,      \* the six callback lists given to Observer.__init__
    pt,          \* self._pt, the packet clock
    tq,          \* self._tq, the timer heap (a Python list used by heapq)
    active,      \* self._active   : flow key -> record
    expiring,    \* self._expiring : flow key -> record
    ignored,     \* self._ignored  : set of flow keys
    emitted,     \* self._emitted  : deque of records
    ct_pkt,      \* self._ct_pkt
    ct_nonip,    \* self._ct_nonip
    ct_shortkey, \* self._ct_shortkey
    ct_ignored,  \* self._ct_ignored
    ct_flow,     \* self._ct_flow
    irq,         \* self._irq: "none" (no interrupt queue) or "queue"
    irq_fired,   \* self._irq_fired: "False", "None" or "True"
    irq_pending, \* number of objects waiting in the interrupt queue
    eof,         \* the trace has signalled end-of-trace
    nread,       \* packets handed out by the trace so far
    flowqueue,   \* the output channel of run_flow_enqueuer
    purge_interval, \* run_flow_enqueuer's argument (0 stands for None)
    pass,        \* the index i of run_flow_enqueuer's "for i in range(2)"
    pc,          \* where the caller stands: see the specifications below
    tlog,        \* history: every timer ever scheduled, and when it fired
    calls,       \* history: the callbacks run for the last packet, with results
    last,        \* history: the last operation and what it was applied to
    hist         \* history: the TCP packets dispatched (specification SpecTcp)

vars == <<chains, pt, tq, active, expiring, ignored, emitted, ct_pkt, ct_nonip,
          ct_shortkey, ct_ignored, ct_flow, irq, irq_fired, irq_pending, eof,
          nread, flowqueue, purge_interval, pass, pc, tlog, calls, last, hist>>

----------------------------------------------------------------------------
(* Bounds of the model.                                                    *)

\* calls of _next_packet in specification Spec
MaxPkts == 3

\* packets of the trace in specification SpecRun
MaxRun == 3

\* packets of the trace in specification SpecTrace
MaxTrace == 4

\* packets of the trace in specification SpecTcp
MaxTcp == 4

\* packets of the trace in specification SpecChains
MaxChains == 3

----------------------------------------------------------------------------
(* Program constants.                                                      *)

TCP_CWR == 128
TCP_ECE == 64
TCP_ACK == 16
TCP_SYN == 2

\* _flow_complete(self, fid, delay=5)
DefaultDelay == 5
\* purge_idle(self, timeout=30)
DefaultTimeout == 30
\* for i in range(2)
Passes == 2

\* SHUTDOWN_SENTINEL = None
SHUTDOWN_SENTINEL == [sentinel |-> TRUE]

\* Python's None, in fields whose other values are numbers >= 0
None == -1

\* x & bit # 0, for a bit that is a power of two
BitSet(x, bit) == (x \div bit) % 2 = 1

Min2(a, b) == IF a < b THEN a ELSE b

----------------------------------------------------------------------------
(* base64.b64encode over a sequence of bytes (numbers 0..255).             *)

B64Alphabet ==
    << "A","B","C","D","E","F","G","H","I","J","K","L","M","N","O","P",
       "Q","R","S","T","U","V","W","X","Y","Z","a","b","c","d","e","f",
       "g","h","i","j","k","l","m","n","o","p","q","r","s","t","u","v",
       "w","x","y","z","0","1","2","3","4","5","6","7","8","9","+","/" >>

B64Char(n) == B64Alphabet[n + 1]

RECURSIVE b64encode(_)
b64encode(bs) ==
    IF Len(bs) = 0 THEN ""
    ELSE IF Len(bs) = 1 THEN
        B64Char(bs[1] \div 4) \o B64Char((bs[1] % 4) * 16) \o "=="
    ELSE IF Len(bs) = 2 THEN
        LET n == (bs[1] * 256 + bs[2]) * 4
        IN  B64Char(n \div 4096) \o B64Char((n \div 64) % 64)
              \o B64Char(n % 64) \o "="
    ELSE
        LET n == bs[1] * 65536 + bs[2] * 256 + bs[3]
        IN  B64Char(n \div 262144) \o B64Char((n \div 4096) % 64)
              \o B64Char((n \div 64) % 64) \o B64Char(n % 64)
              \o b64encode(SubSeq(bs, 4, Len(bs)))

\* Python's s[a:b] for 0 <= a <= b: never an error, cut at the end of s
Slice(s, a, b) == SubSeq(s, a + 1, Min2(b, Len(s)))

----------------------------------------------------------------------------
(* Flow keys.  An IP header is a record                                    *)
(*   ver     4, 6, or 0 for a packet with neither header                   *)
(*   src,dst the address bytes (src_prefix.addr, dst_prefix.addr)          *)
(*   proto   the protocol number, the byte at data[9] (v4) or data[6] (v6) *)
(*   payload the bytes after the IP header                                 *)
(*   short   libtrace raises ValueError when the header is read            *)

PortProtos == {6, 17, 132}

\* variant: the reverse key keeps the ports in the packet's order
flow_ids_ports_kept(ip) ==
    IF ip.proto \in PortProtos
    THEN << b64encode(ip.src \o ip.dst \o <<ip.proto>> \o Slice(ip.payload, 0, 4)),
            b64encode(ip.dst \o ip.src \o <<ip.proto>> \o Slice(ip.payload, 0, 4)) >>
    ELSE << b64encode(ip.src \o ip.dst \o <<ip.proto>>),
            b64encode(ip.dst \o ip.src \o <<ip.proto>>) >>

flow_ids(ip) ==
    IF ip.proto \in PortProtos
    THEN << b64encode(ip.src \o ip.dst \o <<ip.proto>> \o Slice(ip.payload, 0, 4)),
            b64encode(ip.dst \o ip.src \o <<ip.proto>>
                        \o Slice(ip.payload, 2, 4) \o Slice(ip.payload, 0, 2)) >>
    ELSE << b64encode(ip.src \o ip.dst \o <<ip.proto>>),
            b64encode(ip.dst \o ip.src \o <<ip.proto>>) >>

flow4_ids(ip) == flow_ids(ip)

flow6_ids(ip6) == flow_ids(ip6)

----------------------------------------------------------------------------
(* heapq on a list of PacketClockTimer(time, fn), as CPython's _heapq runs *)
(* it.  A timer is [time, fid, id]: fn is the closure tfn over fid, and id *)
(* stands for the identity of the closure object.  Tuples compare field by *)
(* field: with equal times the comparison reaches the two closures, which  *)
(* are distinct objects with no order, and raises TypeError.               *)
(* Positions are Python's, from 0; h[pos + 1] is the element at pos.       *)

TimerCmpRaises(a, b) == a.time = b.time

TimerLt(a, b) == a.time < b.time

Swap(h, i, j) == [h EXCEPT ![i + 1] = h[j + 1], ![j + 1] = h[i + 1]]

RECURSIVE siftdown(_, _, _)
siftdown(h, startpos, pos) ==
    IF pos > startpos
    THEN LET parentpos == (pos - 1) \div 2
             newitem == h[pos + 1]
             parent == h[parentpos + 1]
         IN  IF TimerCmpRaises(newitem, parent) THEN [h |-> h, err |-> TRUE]
             ELSE IF TimerLt(newitem, parent)
                  THEN siftdown(Swap(h, pos, parentpos), startpos, parentpos)
                  ELSE [h |-> h, err |-> FALSE]
    ELSE [h |-> h, err |-> FALSE]

RECURSIVE siftup_from(_, _, _)
siftup_from(h, startpos, pos) ==
    LET endpos == Len(h)
        limit == endpos \div 2
        childpos == 2 * pos + 1
    IN  IF pos < limit
        THEN IF childpos + 1 < endpos
             THEN IF TimerCmpRaises(h[childpos + 1], h[childpos + 2])
                  THEN [h |-> h, err |-> TRUE]
                  ELSE LET c == IF TimerLt(h[childpos + 1], h[childpos + 2])
                                THEN childpos ELSE childpos + 1
                       IN  siftup_from(Swap(h, c, pos), startpos, c)
             ELSE siftup_from(Swap(h, childpos, pos), startpos, childpos)
        ELSE siftdown(h, startpos, pos)

siftup(h, pos) == siftup_from(h, pos, pos)

\* heapq.heappush: the item is appended before it is sifted, and stays in the
\* list when a comparison raises
heappush(h, item) == siftdown(Append(h, item), 0, Len(h))

\* heapq.heappop on a non-empty list: [item, h, err]; when a comparison
\* raises, the root has already been overwritten by the last element
PopResult(item, r) == [item |-> item, h |-> r.h, err |-> r.err]

heappop(h) ==
    IF Len(h) = 1 THEN [item |-> h[1], h |-> << >>, err |-> FALSE]
    ELSE PopResult(h[1], siftup([SubSeq(h, 1, Len(h) - 1) EXCEPT ![1] = h[Len(h)]], 0))

\* min(self._tq, key=lambda x: x.time).time
RECURSIVE MinTime(_)
MinTime(h) ==
    IF Len(h) = 1 THEN h[1].time
    ELSE Min2(h[1].time, MinTime(Tail(h)))

----------------------------------------------------------------------------
(* Python dicts keep insertion order: a table is a sequence of entries     *)
(* [key, rec].  Assigning to a present key keeps its place, assigning to   *)
(* a new key appends.                                                      *)

EmptyTable == << >>

Has(t, k) == \E i \in 1..Len(t) : t[i].key = k

Get(t, k) == t[CHOOSE i \in 1..Len(t) : t[i].key = k].rec

Set(t, k, r) ==
    IF Has(t, k)
    THEN [i \in 1..Len(t) |-> IF t[i].key = k THEN [key |-> k, rec |-> r] ELSE t[i]]
    ELSE Append(t, [key |-> k, rec |-> r])

RECURSIVE Del(_, _)
Del(t, k) ==
    IF Len(t) = 0 THEN << >>
    ELSE IF t[1].key = k THEN Tail(t)
    ELSE <<t[1]>> \o Del(Tail(t), k)

Keys(t) == [i \in 1..Len(t) |-> t[i].key]

KeySet(t) == {t[i].key : i \in 1..Len(t)}

Recs(t) == [i \in 1..Len(t) |-> t[i].rec]

\* a record as a Python dict: a function from field names to values
SetField(rec, f, v) == [x \in DOMAIN rec \cup {f} |-> IF x = f THEN v ELSE rec[x]]

----------------------------------------------------------------------------
(* The reference TCP chain, src/pathspider/observer/tcp.py.  A callback    *)
(* yields [rec, ret, exc]: the record as it leaves it, its return value,   *)
(* and the exception it raised ("" when none).                             *)

Ret(rec, ret) == [rec |-> rec, ret |-> ret, exc |-> ""]

Raise(rec, exc) == [rec |-> rec, ret |-> FALSE, exc |-> exc]

tcp_setup(rec, ip) ==
    Ret([x \in DOMAIN rec \cup {"fwd_syn_flags", "rec_syn_flags", "fwd_fin",
                                "rev_fin", "fwd_rst", "rev_rst", "tcp_connected"} |->
            CASE x = "fwd_syn_flags" -> None
              [] x = "rec_syn_flags" -> None
              [] x \in {"fwd_fin", "rev_fin", "fwd_rst", "rev_rst", "tcp_connected"} -> FALSE
              [] OTHER -> rec[x]],
        TRUE)

\* the "if flags & TCP_SYN" block of tcp_handshake
HandshakeSyn(rec, tcp, rev) ==
    IF BitSet(tcp.flags, TCP_SYN)
    THEN IF rev THEN SetField(rec, "rev_syn_flags", tcp.flags)
                ELSE SetField(rec, "fwd_syn_flags", tcp.flags)
    ELSE rec

\* the test for the end of the handshake, its operands read from left to
\* right as Python's "and" reads them.  tcp.connected is read from libtrace's
\* tcp object: "absent" when the object has no such attribute
\* (AttributeError), else its truth value.
HandshakeConnected(r1, tcp, rev) ==
    IF tcp.connected = "absent" THEN Raise(r1, "AttributeError")
    ELSE IF tcp.connected = "true" THEN Ret(r1, TRUE)
    ELSE IF rev THEN Ret(r1, TRUE)
    ELSE IF "fwd_syn_flags" \notin DOMAIN r1 THEN Raise(r1, "KeyError")
    ELSE IF r1["fwd_syn_flags"] = None THEN Ret(r1, TRUE)
    ELSE IF "rev_syn_flags" \notin DOMAIN r1 THEN Raise(r1, "KeyError")
    ELSE IF r1["rev_syn_flags"] = None THEN Ret(r1, TRUE)
    ELSE IF BitSet(tcp.flags, TCP_ACK)
         THEN Ret(SetField(r1, "tcp_connected", TRUE), TRUE)
         ELSE Ret(r1, TRUE)

tcp_handshake(rec, tcp, rev) ==
    HandshakeConnected(HandshakeSyn(rec, tcp, rev), tcp, rev)

\* the fields the four "if" statements of tcp_complete set to True
CompleteSets(tcp, rev) ==
    (IF tcp.fin_flag /\ rev THEN {"rev_fin"} ELSE {})
    \cup (IF tcp.fin_flag /\ ~rev THEN {"fwd_fin"} ELSE {})
    \cup (IF tcp.rst_flag /\ rev THEN {"rev_rst"} ELSE {})
    \cup (IF tcp.rst_flag /\ ~rev THEN {"fwd_rst"} ELSE {})

CompleteFlags(rec, tcp, rev) ==
    [x \in DOMAIN rec \cup CompleteSets(tcp, rev) |->
        IF x \in CompleteSets(tcp, rev) THEN TRUE ELSE rec[x]]

\* variant: one FIN is enough
CompleteReturn_any_fin(r) ==
    IF {"fwd_fin", "rev_fin", "fwd_rst", "rev_rst"} \subseteq DOMAIN r
    THEN Ret(r, ~((r["fwd_fin"] \/ r["rev_fin"]) \/ r["fwd_rst"] \/ r["rev_rst"]))
    ELSE Raise(r, "KeyError")

\* the return statement of tcp_complete
CompleteReturn(r) ==
    IF {"fwd_fin", "rev_fin", "fwd_rst", "rev_rst"} \subseteq DOMAIN r
    THEN Ret(r, ~((r["fwd_fin"] /\ r["rev_fin"]) \/ r["fwd_rst"] \/ r["rev_rst"]))
    ELSE Raise(r, "KeyError")

tcp_complete(rec, tcp, rev) == CompleteReturn(CompleteFlags(rec, tcp, rev))

----------------------------------------------------------------------------
(* Callbacks.  Beside the TCP chain the chains may hold callbacks of the   *)
(* caller's own; what such a callback answers for a packet is part of the  *)
(* input: p.nf for the new-flow callback "user_new", p.keep for the        *)
(* per-packet callback "user_pkt" ("true" or "false").                     *)

\* extract_ports(ip): the ports of a UDP or TCP packet, else (None, None)
extract_ports(ip) ==
    IF ip.l4 \in {"udp", "tcp"}
    THEN <<Slice(ip.payload, 0, 2), Slice(ip.payload, 2, 4)>>
    ELSE <<None, None>>

\* basic_flow(rec, ip)
basic_flow(rec, ip) ==
    Ret([x \in DOMAIN rec \cup {"sip", "dip", "proto", "sp", "dp", "pkt_fwd",
                                "pkt_rev", "oct_fwd", "oct_rev"} |->
            CASE x = "sip" -> ip.src
              [] x = "dip" -> ip.dst
              [] x = "proto" -> ip.proto
              [] x = "sp" -> extract_ports(ip)[1]
              [] x = "dp" -> extract_ports(ip)[2]
              [] x \in {"pkt_fwd", "pkt_rev", "oct_fwd", "oct_rev"} -> 0
              [] OTHER -> rec[x]],
        TRUE)

\* rec[f] += n, a KeyError when the record has no field f
AddTo(r, f, n) ==
    IF r.exc # "" THEN r
    ELSE IF f \notin DOMAIN r.rec THEN Raise(r.rec, "KeyError")
    ELSE Ret(SetField(r.rec, f, r.rec[f] + n), TRUE)

\* basic_count(rec, ip, rev)
basic_count(rec, ip, rev) ==
    IF rev
    THEN AddTo(AddTo(Ret(rec, TRUE), "pkt_rev", 1), "oct_rev", ip.size)
    ELSE AddTo(AddTo(Ret(rec, TRUE), "pkt_fwd", 1), "oct_fwd", ip.size)

NewFlowCall(fn, rec, p) ==
    CASE fn = "tcp_setup" -> tcp_setup(rec, p)
      [] fn = "basic_flow" -> basic_flow(rec, p)
      [] fn = "user_new"  -> Ret(rec, p.nf = "true")

PacketCall(fn, rec, p, rev) ==
    CASE fn = "tcp_handshake" -> tcp_handshake(rec, p.tcp, rev)
      [] fn = "tcp_complete"  -> tcp_complete(rec, p.tcp, rev)
      [] fn = "basic_count"   -> basic_count(rec, p, rev)
      [] fn = "user_pkt"      -> Ret(rec, p.keep = "true")

Logged(log, fn, r) == Append(log, [fn |-> fn, ret |-> r.ret, exc |-> r.exc])

\* for fn in self._new_flow_chain: if not fn(rec, ip): ... return
\* yields [rec, veto, exc, log]
RECURSIVE RunNewFlowChain(_, _, _, _)
RECURSIVE NewFlowStep(_, _, _, _)
NewFlowStep(fns, p, log, r) ==
    IF r.exc # ""
    THEN [rec |-> r.rec, veto |-> FALSE, exc |-> r.exc, log |-> Logged(log, Head(fns), r)]
    ELSE IF ~r.ret
    THEN [rec |-> r.rec, veto |-> TRUE, exc |-> "", log |-> Logged(log, Head(fns), r)]
    ELSE RunNewFlowChain(Tail(fns), r.rec, p, Logged(log, Head(fns), r))

RunNewFlowChain(fns, rec, p, log) ==
    IF Len(fns) = 0 THEN [rec |-> rec, veto |-> FALSE, exc |-> "", log |-> log]
    ELSE NewFlowStep(fns, p, log, NewFlowCall(Head(fns), rec, p))

\* for fn in chain: keep_flow = keep_flow and fn(rec, hdr, rev=rev)
\* yields [rec, keep, exc, log]; "and" does not call fn once keep_flow is False
RECURSIVE RunChain(_, _, _, _, _, _)
RECURSIVE ChainStep(_, _, _, _, _)
ChainStep(fns, p, rev, log, r) ==
    IF r.exc # ""
    THEN [rec |-> r.rec, keep |-> TRUE, exc |-> r.exc, log |-> Logged(log, Head(fns), r)]
    ELSE RunChain(Tail(fns), r.rec, p, rev, r.ret, Logged(log, Head(fns), r))

RunChain(fns, rec, p, rev, keep, log) ==
    IF Len(fns) = 0 THEN [rec |-> rec, keep |-> keep, exc |-> "", log |-> log]
    ELSE IF ~keep THEN RunChain(Tail(fns), rec, p, rev, keep, log)
    ELSE ChainStep(fns, p, rev, log, PacketCall(Head(fns), rec, p, rev))

----------------------------------------------------------------------------
(* The Observer.  An observer value o holds the fields, and                *)
(*   exc   the exception that left the method ("" when it returned)        *)
(*   hung  the method stopped in pdb.post_mortem and was not resumed       *)
(*   stops how often the method entered pdb.post_mortem                    *)
(*   res   what _get_flow made of the last packet                          *)

NoRes == [kind |-> "none", ffid |-> "", rfid |-> "", fid |-> "", rev |-> FALSE]

Obs ==
    [chains |-> chains, pt |-> pt, tq |-> tq, active |-> active,
     expiring |-> expiring, ignored |-> ignored, emitted |-> emitted,
     ct_pkt |-> ct_pkt, ct_nonip |-> ct_nonip, ct_shortkey |-> ct_shortkey,
     ct_ignored |-> ct_ignored, ct_flow |-> ct_flow, tlog |-> tlog,
     calls |-> << >>, exc |-> "", hung |-> FALSE, stops |-> 0, res |-> NoRes]

\* self._emitted.append(rec)
emit_flow(o, rec) == [o EXCEPT !.emitted = Append(@, rec)]

\* variant: without "del self._expiring[fid]"
tfn_no_del(o, fid) ==
    IF Has(o.expiring, fid) THEN emit_flow(o, Get(o.expiring, fid)) ELSE o

\* the closure tfn of _finish_expiry_tfn(fid)
tfn(o, fid) ==
    IF Has(o.expiring, fid)
    THEN [emit_flow(o, Get(o.expiring, fid)) EXCEPT !.expiring = Del(@, fid)]
    ELSE o

\* history: timer id fired at clock t
Fired(o, id, t) == [o EXCEPT !.tlog[id].at = t, !.tlog[id].n = @ + 1]

\* the while loop of _tick.  r is what heappop made of the queue.  A
\* comparison raising inside heappop is caught by the bare except, which
\* enters pdb.post_mortem: the debugger either lets the loop go on
\* (dbg = "resume") or holds it for good.
RECURSIVE TickLoop(_, _, _)
RECURSIVE TickPop(_, _, _, _)
TickPop(o, t, dbg, r) ==
    IF r.err
    THEN IF dbg = "resume"
         THEN TickLoop([o EXCEPT !.tq = r.h, !.stops = @ + 1], t, dbg)
         ELSE [o EXCEPT !.tq = r.h, !.stops = @ + 1, !.hung = TRUE]
    ELSE TickLoop(tfn(Fired([o EXCEPT !.tq = r.h], r.item.id, t), r.item.fid), t, dbg)

TickLoop(o, t, dbg) ==
    IF Len(o.tq) > 0 /\ t > MinTime(o.tq)
    THEN TickPop(o, t, dbg, heappop(o.tq))
    ELSE o

tick(o, t, dbg) == TickLoop([o EXCEPT !.pt = t], t, dbg)

\* heapq.heappush(self._tq, item), r being what heappush made of the queue
PushTimer(o, item, r) ==
    [o EXCEPT !.tq = r.h,
              !.tlog = Append(@, [time |-> item.time, fid |-> item.fid,
                                  at |-> None, n |-> 0]),
              !.exc = IF r.err THEN "TypeError" ELSE @]

NewTimer(o, delay, fid) ==
    [time |-> o.pt + delay, fid |-> fid, id |-> Len(o.tlog) + 1]

set_timer(o, delay, fid) ==
    PushTimer(o, NewTimer(o, delay, fid), heappush(o.tq, NewTimer(o, delay, fid)))

\* variant: without "del self._active[fid]"
flow_complete_no_del(o, fid, delay) ==
    IF Has(o.active, fid)
    THEN set_timer([o EXCEPT !.expiring = Set(@, fid, Get(o.active, fid))], delay, fid)
    ELSE o

\* variant: without "if fid in self._active"
flow_complete_no_test(o, fid, delay) ==
    IF Has(o.active, fid)
    THEN set_timer([o EXCEPT !.expiring = Set(@, fid, Get(o.active, fid)),
                             !.active = Del(@, fid)],
                   delay, fid)
    ELSE set_timer(o, delay, fid)

flow_complete(o, fid, delay) ==
    IF Has(o.active, fid)
    THEN set_timer([o EXCEPT !.expiring = Set(@, fid, Get(o.active, fid)),
                             !.active = Del(@, fid)],
                   delay, fid)
    ELSE o

\* the test of purge_idle for one flow
Idle(o, fid, timeout) == o.pt - Get(o.active, fid)["last"] > timeout

\* the for loop of purge_idle over the copied keys; an exception ends it.
\* Line 303 of the source ends in a stray colon; the statement is modelled
\* as the assignment it spells.
RECURSIVE PurgeLoop(_, _, _)
PurgeLoop(o, fids, timeout) ==
    IF Len(fids) = 0 \/ o.exc # "" THEN o
    ELSE PurgeLoop(
           IF Idle(o, Head(fids), timeout)
           THEN flow_complete(o, Head(fids), DefaultDelay)
           ELSE o,
           Tail(fids), timeout)

purge_idle(o, timeout) == PurgeLoop(o, Keys(o.active), timeout)

\* variant: the active flows are emitted before the expiring ones
flush_active_first(o) ==
    [o EXCEPT !.emitted = @ \o Recs(o.active) \o Recs(o.expiring),
              !.expiring = EmptyTable,
              !.active = EmptyTable,
              !.ignored = {}]

\* variant: the active flows are not emitted and stay in their table
flush_expiring(o) ==
    [o EXCEPT !.emitted = @ \o Recs(o.expiring),
              !.expiring = EmptyTable,
              !.ignored = {}]

flush(o) ==
    [o EXCEPT !.emitted = @ \o Recs(o.expiring) \o Recs(o.active),
              !.expiring = EmptyTable,
              !.active = EmptyTable,
              !.ignored = {}]

\* the record of flow fid, in whichever table holds it, and its update in place
RecOf(o, fid) ==
    IF Has(o.active, fid) THEN Get(o.active, fid) ELSE Get(o.expiring, fid)

SetRec(o, fid, rec) ==
    IF Has(o.active, fid)
    THEN [o EXCEPT !.active = Set(@, fid, rec)]
    ELSE [o EXCEPT !.expiring = Set(@, fid, rec)]

\* the end of _get_flow: rec['last'] = ip.seconds; return (fid, rec, fid == rfid)
Found(o, p, kind, ffid, rfid, fid) ==
    [SetRec(o, fid, SetField(RecOf(o, fid), "last", p.seconds)) EXCEPT
        !.res = [kind |-> kind, ffid |-> ffid, rfid |-> rfid, fid |-> fid,
                 rev |-> (fid = rfid)]]

\* return (None, None, False)
NotFound(o, kind, ffid, rfid) ==
    [o EXCEPT !.res = [kind |-> kind, ffid |-> ffid, rfid |-> rfid, fid |-> "",
                       rev |-> FALSE]]

\* rec = {'first': ip.seconds}.  The field "id" of a record stands for the
\* identity of the dict object: the n-th flow put into active has id n.
NewRec(o, p) ==
    [x \in {"first", "id"} |-> IF x = "first" THEN p.seconds ELSE o.ct_flow + 1]

\* the else branch of _get_flow once the new-flow chain has run as c
NewFlowDone(o, p, ffid, rfid, c) ==
    IF c.exc # ""
    THEN NotFound([o EXCEPT !.calls = c.log, !.exc = c.exc], "raised", ffid, rfid)
    ELSE IF c.veto
    THEN NotFound([o EXCEPT !.calls = c.log, !.ignored = @ \cup {ffid},
                            !.ct_ignored = @ + 1], "veto", ffid, rfid)
    ELSE Found([o EXCEPT !.calls = c.log, !.active = Set(@, ffid, c.rec),
                         !.ct_flow = @ + 1], p, "new", ffid, rfid, ffid)

NewFlow(o, p, ffid, rfid) ==
    NewFlowDone(o, p, ffid, rfid,
                RunNewFlowChain(o.chains.new_flow, NewRec(o, p), p, o.calls))

\* variant: without "if rfid in self._ignored"
Lookup_fwd_ignored(o, p, ffid, rfid) ==
    IF ffid \in o.ignored THEN NotFound(o, "ignored", ffid, rfid)
    ELSE IF Has(o.active, ffid) THEN Found(o, p, "active_fwd", ffid, rfid, ffid)
    ELSE IF Has(o.expiring, ffid) THEN Found(o, p, "expiring_fwd", ffid, rfid, ffid)
    ELSE IF Has(o.active, rfid) THEN Found(o, p, "active_rev", ffid, rfid, rfid)
    ELSE IF Has(o.expiring, rfid) THEN Found(o, p, "expiring_rev", ffid, rfid, rfid)
    ELSE NewFlow(o, p, ffid, rfid)

\* the lookups of _get_flow in ignored, active and expiring
Lookup(o, p, ffid, rfid) ==
    IF ffid \in o.ignored THEN NotFound(o, "ignored", ffid, rfid)
    ELSE IF rfid \in o.ignored THEN NotFound(o, "ignored", ffid, rfid)
    ELSE IF Has(o.active, ffid) THEN Found(o, p, "active_fwd", ffid, rfid, ffid)
    ELSE IF Has(o.expiring, ffid) THEN Found(o, p, "expiring_fwd", ffid, rfid, ffid)
    ELSE IF Has(o.active, rfid) THEN Found(o, p, "active_rev", ffid, rfid, rfid)
    ELSE IF Has(o.expiring, rfid) THEN Found(o, p, "expiring_rev", ffid, rfid, rfid)
    ELSE NewFlow(o, p, ffid, rfid)

LookupIds(o, p, ids) == Lookup(o, p, ids[1], ids[2])

get_flow(o, p) ==
    IF p.ver \notin {4, 6}
    THEN NotFound([o EXCEPT !.ct_nonip = @ + 1], "nonip", "", "")
    ELSE IF p.short
    THEN NotFound([o EXCEPT !.ct_shortkey = @ + 1], "short", "", "")
    ELSE IF p.ver = 4 THEN LookupIds(o, p, flow4_ids(p))
    ELSE LookupIds(o, p, flow6_ids(p))

FoundKinds == {"new", "active_fwd", "expiring_fwd", "active_rev", "expiring_rev"}

\* the chain of the packet's IP header, and of its transport header
IpChain(o, p) == IF p.ver = 4 THEN o.chains.ip4 ELSE o.chains.ip6

L4Chain(o, p) ==
    IF p.l4 = "tcp" THEN o.chains.tcp
    ELSE IF p.l4 = "udp" THEN o.chains.udp ELSE o.chains.l4

\* "if not keep_flow: self._flow_complete(fid)", the chains having run as c
DispatchDone(o, c) ==
    IF c.exc # ""
    THEN [SetRec(o, o.res.fid, c.rec) EXCEPT !.calls = c.log, !.exc = c.exc]
    ELSE IF ~c.keep
    THEN flow_complete([SetRec(o, o.res.fid, c.rec) EXCEPT !.calls = c.log],
                       o.res.fid, DefaultDelay)
    ELSE [SetRec(o, o.res.fid, c.rec) EXCEPT !.calls = c.log]

\* the transport header chains, the IP header chain having run as c1
DispatchL4(o, p, c1) ==
    IF c1.exc # "" THEN DispatchDone(o, c1)
    ELSE DispatchDone(o, RunChain(L4Chain(o, p), c1.rec, p, o.res.rev, c1.keep, c1.log))

\* the dispatch of _next_packet, from "keep_flow = True" on
Dispatch(o, p) ==
    DispatchL4(o, p, RunChain(IpChain(o, p), RecOf(o, o.res.fid), p, o.res.rev,
                              TRUE, o.calls))

\* "if not rec: return True", then the dispatch
AfterGetFlow(o, p) == IF o.res.kind \in FoundKinds THEN Dispatch(o, p) ELSE o

AfterTick(o, p) == IF o.hung THEN o ELSE AfterGetFlow(get_flow(o, p), p)

\* _next_packet once a packet p has been read and no interrupt was seen
next_packet(o, p, dbg) ==
    AfterTick(tick([o EXCEPT !.ct_pkt = @ + 1], p.seconds, dbg), p)

----------------------------------------------------------------------------
(* Inputs: the packets a trace may hold.                                   *)

AddrA == <<10, 0, 0, 1>>
AddrB == <<10, 0, 0, 2>>
Addr6A == <<32, 1, 13, 184, 0, 0, 0, 0, 0, 0, 0, 0, 0, 0, 0, 1>>
Addr6B == <<32, 1, 13, 184, 0, 0, 0, 0, 0, 0, 0, 0, 0, 0, 0, 2>>
PortP == <<0, 80>>
PortQ == <<192, 1>>

\* ip.size of the packets of the traces
PktSize == 40

Hdr(ver, src, dst, proto, sport, dport, l4) ==
    [ver |-> ver, src |-> src, dst |-> dst, proto |-> proto,
     payload |-> sport \o dport, short |-> FALSE, l4 |-> l4, size |-> PktSize]

\* the header of the same logical flow travelling the other way
Reverse(h) ==
    [h EXCEPT !.src = h.dst, !.dst = h.src,
              !.payload = Slice(h.payload, 2, 4) \o Slice(h.payload, 0, 2)]

HdrX == Hdr(4, AddrA, AddrB, 6, PortQ, PortP, "tcp")
HdrY == Hdr(4, AddrA, AddrB, 6, PortP, PortP, "tcp")
\* both ends equal: the forward and the reverse key are the same key
HdrZ == Hdr(4, AddrA, AddrA, 6, PortP, PortP, "tcp")
HdrUdp == Hdr(4, AddrA, AddrB, 17, PortQ, PortP, "udp")
HdrIcmp == Hdr(4, AddrA, AddrB, 1, << >>, << >>, "other")
Hdr6 == Hdr(6, Addr6A, Addr6B, 6, PortQ, PortP, "tcp")
HdrNonIp == Hdr(0, << >>, << >>, 0, << >>, << >>, "other")
HdrShort == [HdrX EXCEPT !.short = TRUE]

\* the tcp object of a packet: tcp.flags and the accessors libtrace derives
\* from it, and the attribute tcp_handshake reads as tcp.connected
Tcp(flags, connected) ==
    [flags |-> flags, fin_flag |-> BitSet(flags, 1), rst_flag |-> BitSet(flags, 4),
     connected |-> connected]

NoTcp == Tcp(0, "absent")

Pkt(h, seconds, tcp, nf, keep) ==
    [ver |-> h.ver, src |-> h.src, dst |-> h.dst, proto |-> h.proto,
     payload |-> h.payload, short |-> h.short, l4 |-> h.l4, size |-> h.size,
     seconds |-> seconds, tcp |-> tcp, nf |-> nf, keep |-> keep]

\* capture timestamps: equal stamps, a step of 1, steps across the expiry
\* delay (5) and across the idle timeout (30), each with its boundary
TimeStamps == {0, 1, 6, 31}

Answers == {"true", "false"}

\* what the two callbacks answer for one packet: the per-packet callback is
\* not asked about a packet whose flow the new-flow callback vetoes
AnswerPairs == {a \in Answers \X Answers : a[1] = "true" \/ a[2] = "true"}

Packets(headers, stamps) ==
    {Pkt(h, t, NoTcp, a[1], a[2]) : h \in headers, t \in stamps, a \in AnswerPairs}

\* callbacks of the caller's own in every chain that sees a packet
UserChains ==
    [new_flow |-> <<"user_new">>, ip4 |-> << >>, ip6 |-> << >>,
     tcp |-> <<"user_pkt">>, udp |-> <<"user_pkt">>, l4 |-> <<"user_pkt">>]

InitObserver(ch) ==
    /\ chains = ch
    /\ pt = 0
    /\ tq = << >>
    /\ active = EmptyTable
    /\ expiring = EmptyTable
    /\ ignored = {}
    /\ emitted = << >>
    /\ ct_pkt = 0
    /\ ct_nonip = 0
    /\ ct_shortkey = 0
    /\ ct_ignored = 0
    /\ ct_flow = 0
    /\ tlog = << >>
    /\ calls = << >>
    /\ last = [op |-> "init", arg |-> "", exc |-> "", res |-> NoRes]
    /\ hist = << >>

\* the observer fields after a method left them as o
SetObs(o) ==
    /\ pt' = o.pt
    /\ tq' = o.tq
    /\ active' = o.active
    /\ expiring' = o.expiring
    /\ ignored' = o.ignored
    /\ emitted' = o.emitted
    /\ ct_pkt' = o.ct_pkt
    /\ ct_nonip' = o.ct_nonip
    /\ ct_shortkey' = o.ct_shortkey
    /\ ct_ignored' = o.ct_ignored
    /\ ct_flow' = o.ct_flow
    /\ tlog' = o.tlog
    /\ calls' = o.calls

\* how a call that left the observer as o ends for its caller
Outcome(o) == IF o.hung THEN "hung" ELSE IF o.exc # "" THEN "raised" ELSE "ok"

----------------------------------------------------------------------------
(* Specification Spec: one Observer driven through its methods in any      *)
(* order (_next_packet on the packets of a trace, _flow_complete,          *)
(* purge_idle, flush).  A caller that catches an exception may go on       *)
(* using the object; a call held in the debugger never returns.            *)

ApiHeaders == {HdrX, Reverse(HdrX), HdrY, HdrZ}

ApiStamps == {t \in TimeStamps : t <= 6}

ApiPackets == Packets(ApiHeaders, ApiStamps)

ApiTimeouts == {5}

Init ==
    /\ InitObserver(UserChains)
    /\ irq = "none"
    /\ irq_fired = "False"
    /\ irq_pending = 0
    /\ eof = FALSE
    /\ nread = 0
    /\ flowqueue = << >>
    /\ purge_interval = 0
    /\ pass = 0
    /\ pc = "api"

PacketFrame == UNCHANGED <<chains, irq, irq_fired, irq_pending, eof, flowqueue,
                           purge_interval, pass>>

ApiFrame == PacketFrame /\ UNCHANGED hist

\* how _next_packet leaves the observer: as o when every stop in the debugger
\* is resumed, as h when one holds it; pc tells where a caller goes on
PacketDone(o, h, on) ==
    \/ /\ SetObs(o)
       /\ pc' = IF o.exc # "" /\ on = "loop" THEN "crashed" ELSE on
       /\ last' = [op |-> "packet", arg |-> "", exc |-> o.exc, res |-> o.res]
    \/ /\ o.stops > 0
       /\ SetObs(h)
       /\ pc' = "hung"
       /\ last' = [op |-> "packet", arg |-> "", exc |-> "", res |-> h.res]

\* self._next_packet() on a trace whose next packet, of at most max, is p
NextPacketCall(p, max) ==
    /\ pc = "api"
    /\ nread < max
    /\ p.seconds >= pt
    /\ PacketDone(next_packet(Obs, p, "resume"), next_packet(Obs, p, "hold"), "api")
    /\ nread' = nread + 1
    /\ PacketFrame

ApiNextPacket(p) == NextPacketCall(p, MaxPkts) /\ UNCHANGED hist

\* a method other than _next_packet left the observer as o
\* (history: kind tells whether _flow_complete found its key in active)
CallDone(o, op, arg, kind) ==
    /\ SetObs(o)
    /\ last' = [op |-> op, arg |-> arg, exc |-> o.exc,
                res |-> [NoRes EXCEPT !.kind = kind]]

ApiFlowComplete(fid) ==
    /\ pc = "api"
    /\ CallDone(flow_complete(Obs, fid, DefaultDelay), "complete", fid,
                IF Has(active, fid) THEN "moved" ELSE "absent")
    /\ UNCHANGED <<pc, nread>>
    /\ ApiFrame

ApiPurgeIdle(timeout) ==
    /\ pc = "api"
    /\ CallDone(purge_idle(Obs, timeout), "purge", timeout, "none")
    /\ UNCHANGED <<pc, nread>>
    /\ ApiFrame

ApiFlush ==
    /\ pc = "api"
    /\ CallDone(flush(Obs), "flush", "", "none")
    /\ UNCHANGED <<pc, nread>>
    /\ ApiFrame

Next ==
    \/ \E p \in ApiPackets : ApiNextPacket(p)
    \/ \E fid \in KeySet(active) \cup KeySet(expiring) \cup ignored : ApiFlowComplete(fid)
    \/ \E timeout \in ApiTimeouts : ApiPurgeIdle(timeout)
    \/ ApiFlush

Spec == Init /\ [][Next]_vars

----------------------------------------------------------------------------
(* Specification SpecTrace: a trace of at most MaxTrace packets of three   *)
(* flows replayed through _next_packet, nothing else called.               *)

TraceHeaders == {HdrX, HdrY, HdrZ}

TracePackets == Packets(TraceHeaders, TimeStamps)

TracePacket(p) == NextPacketCall(p, MaxTrace) /\ UNCHANGED hist

NextTrace == \E p \in TracePackets : TracePacket(p)

SpecTrace == Init /\ [][NextTrace]_vars

----------------------------------------------------------------------------
(* Specification SpecRun: run_flow_enqueuer(flowqueue, irqueue,            *)
(* purge_interval) on a trace of at most MaxRun packets.    pc is "loop"   *)
(* inside "for i in range(2): while True", "shutdown" after the for loop,  *)
(* "done" once the sentinel is put, "crashed" when an exception left the   *)
(* method, "hung" when it is held in the debugger.                         *)

RunHeaders == {HdrX, HdrY, HdrNonIp, HdrShort}

RunPackets == Packets(RunHeaders, TimeStamps)

PurgeIntervals == {0, 1, 2}

InitRun ==
    /\ InitObserver(UserChains)
    /\ irq \in {"none", "queue"}
    /\ irq_fired = IF irq = "queue" THEN "None" ELSE "False"
    /\ irq_pending = 0
    /\ eof = FALSE
    /\ nread = 0
    /\ flowqueue = << >>
    /\ purge_interval \in PurgeIntervals
    /\ pass = 0
    /\ pc = "loop"

\* the interrupt queue holds an object when _interrupted polls it
IrqSeen == irq_fired # "True" /\ irq = "queue" /\ irq_pending > 0

\* variant: _interrupted forgets an interrupt it has reported
Interrupted_forgets == IrqSeen

\* what _interrupted returns
Interrupted == irq_fired = "True" \/ IrqSeen

\* "self.flush(); break", and the end of the for loop after the last pass
FlushAndBreak ==
    /\ SetObs(flush(Obs))
    /\ pass' = pass + 1
    /\ pc' = IF pass + 1 = Passes THEN "shutdown" ELSE "loop"

\* someone writes an object to the interrupt queue
IrqPut ==
    /\ pc = "loop"
    /\ irq = "queue"
    /\ irq_pending = 0
    /\ irq_fired # "True"
    /\ irq_pending' = 1
    /\ last' = [op |-> "irq", arg |-> "", exc |-> "", res |-> NoRes]
    /\ UNCHANGED <<chains, pt, tq, active, expiring, ignored, emitted, ct_pkt,
                   ct_nonip, ct_shortkey, ct_ignored, ct_flow, irq, irq_fired,
                   eof, nread, flowqueue, purge_interval, pass, pc, tlog, calls, hist>>

\* _next_flow with an empty emission queue: _next_packet reads packet p
RunReadPacket(p) ==
    /\ pc = "loop"
    /\ Len(emitted) = 0
    /\ ~eof
    /\ nread < MaxRun
    /\ p.seconds >= pt
    /\ nread' = nread + 1
    /\ UNCHANGED <<chains, irq, eof, flowqueue, purge_interval, hist>>
    /\ IF Interrupted
       THEN /\ irq_fired' = "True"
            /\ irq_pending' = IF IrqSeen THEN irq_pending - 1 ELSE irq_pending
            /\ FlushAndBreak
            /\ last' = [op |-> "interrupted", arg |-> "", exc |-> "", res |-> NoRes]
       ELSE /\ UNCHANGED <<irq_fired, irq_pending, pass>>
            /\ PacketDone(next_packet(Obs, p, "resume"),
                          next_packet(Obs, p, "hold"), "loop")

\* _next_flow with an empty emission queue: read_packet signals end-of-trace
RunEndOfTrace ==
    /\ pc = "loop"
    /\ Len(emitted) = 0
    /\ eof' = TRUE
    /\ FlushAndBreak
    /\ last' = [op |-> "eof", arg |-> "", exc |-> "", res |-> NoRes]
    /\ UNCHANGED <<chains, irq, irq_fired, irq_pending, nread, flowqueue,
                   purge_interval, hist>>

\* the observer is left as o by the body of "if f:"
\* (history: arg tells whether the body called purge_idle)
PutDone(o, arg) ==
    /\ SetObs(o)
    /\ pc' = IF o.exc # "" THEN "crashed" ELSE "loop"
    /\ last' = [op |-> "put", arg |-> arg, exc |-> o.exc, res |-> NoRes]

\* "purge_interval and (self._ct_flow % purge_interval == 0)", evaluated
\* after the put that made the count of records put "put"
PurgeDue(n, created, put) == n # 0 /\ created % n = 0

\* _next_flow with a record waiting: flowqueue.put(f), then the idle purge
\* when purge_interval divides the count of flows created
RunPutFlow ==
    /\ pc = "loop"
    /\ Len(emitted) > 0
    /\ flowqueue' = Append(flowqueue, Head(emitted))
    /\ IF PurgeDue(purge_interval, ct_flow, Len(flowqueue) + 1)
       THEN PutDone(purge_idle([Obs EXCEPT !.emitted = Tail(emitted)], DefaultTimeout),
                    "purge_idle")
       ELSE PutDone([Obs EXCEPT !.emitted = Tail(emitted)], "")
    /\ UNCHANGED <<chains, irq, irq_fired, irq_pending, eof, nread,
                   purge_interval, pass, hist>>

\* flowqueue.put(SHUTDOWN_SENTINEL)
RunShutdown ==
    /\ pc = "shutdown"
    /\ flowqueue' = Append(flowqueue, SHUTDOWN_SENTINEL)
    /\ pc' = "done"
    /\ last' = [op |-> "sentinel", arg |-> "", exc |-> "", res |-> NoRes]
    /\ UNCHANGED <<chains, pt, tq, active, expiring, ignored, emitted, ct_pkt,
                   ct_nonip, ct_shortkey, ct_ignored, ct_flow, irq, irq_fired,
                   irq_pending, eof, nread, purge_interval, pass, tlog, calls, hist>>

NextRun ==
    \/ IrqPut
    \/ \E p \in RunPackets : RunReadPacket(p)
    \/ RunEndOfTrace
    \/ RunPutFlow
    \/ RunShutdown

SpecRun == InitRun /\ [][NextRun]_vars

\* the thread running run_flow_enqueuer keeps running, and the trace ends
SpecRunFair == SpecRun /\ WF_vars(NextRun)

----------------------------------------------------------------------------
(* Specification SpecTcp: a trace of at most MaxTcp TCP packets of one     *)
(* connection replayed through _next_packet of an Observer configured with *)
(* the reference TCP chain.                                                *)

TcpChain ==
    [new_flow |-> <<"tcp_setup">>, ip4 |-> << >>, ip6 |-> << >>,
     tcp |-> <<"tcp_handshake", "tcp_complete">>, udp |-> << >>, l4 |-> << >>]

TcpChains == {TcpChain, [TcpChain EXCEPT !.tcp = <<"tcp_complete">>]}

FlagSYN == TCP_SYN
FlagSYNACK == TCP_SYN + TCP_ACK
FlagACK == TCP_ACK
\* FIN is bit 0x01, RST is bit 0x04 of the flag byte
FlagFINACK == TCP_ACK + 1
FlagRST == 4

TcpFlags == {FlagSYN, FlagSYNACK, FlagACK, FlagFINACK, FlagRST}

\* tcp.connected: no such attribute, or one that is false or true
Connected == {"absent", "false", "true"}

TcpStamps == {t \in TimeStamps : t <= 6}

TcpPackets ==
    {Pkt(h, t, Tcp(f, c), "true", "true") :
        h \in {HdrX, Reverse(HdrX)}, t \in TcpStamps, f \in TcpFlags, c \in Connected}

\* history of one record: how far the packets it saw follow the sequence
\* SYN (forward), SYN+ACK (reverse), ACK (forward); whether a callback raised
\* on one of them; the directions whose FIN and RST tcp_complete was given;
\* whether tcp_complete returned false, and true after that
NoHist ==
    [stage |-> "none", err |-> FALSE, fin |-> {}, rst |-> {},
     done |-> FALSE, undone |-> FALSE]

Dir(rev) == IF rev THEN "rev" ELSE "fwd"

Stage(stage, kind, flags, rev) ==
    IF stage = "none" /\ kind = "new" /\ flags = FlagSYN /\ ~rev THEN "syn"
    ELSE IF stage = "syn" /\ flags = FlagSYNACK /\ rev THEN "synack"
    ELSE IF stage = "synack" /\ flags = FlagACK /\ ~rev THEN "ack"
    ELSE "off"

CalledOk(cl, fn) == \E i \in 1..Len(cl) : cl[i].fn = fn /\ cl[i].exc = ""

Returned(cl, fn, ret) ==
    \E i \in 1..Len(cl) : cl[i].fn = fn /\ cl[i].exc = "" /\ cl[i].ret = ret

Raised(cl) == \E i \in 1..Len(cl) : cl[i].exc # ""

\* the history e of a record after a packet with header tcp, direction rev,
\* for which get_flow answered kind and the callbacks ran as cl
NotedEntry(e, tcp, kind, rev, cl) ==
    [stage |-> Stage(e.stage, kind, tcp.flags, rev),
     err |-> e.err \/ Raised(cl),
     fin |-> e.fin \cup (IF CalledOk(cl, "tcp_complete") /\ tcp.fin_flag
                         THEN {Dir(rev)} ELSE {}),
     rst |-> e.rst \cup (IF CalledOk(cl, "tcp_complete") /\ tcp.rst_flag
                         THEN {Dir(rev)} ELSE {}),
     done |-> e.done \/ Returned(cl, "tcp_complete", FALSE),
     undone |-> e.undone \/ (e.done /\ Returned(cl, "tcp_complete", TRUE))]

Noted(h, id, tcp, kind, rev, cl) ==
    IF id > Len(h)
    THEN Append(h, NotedEntry(NoHist, tcp, kind, rev, cl))
    ELSE [h EXCEPT ![id] = NotedEntry(@, tcp, kind, rev, cl)]

TcpPacket(p) ==
    /\ NextPacketCall(p, MaxTcp)
    /\ hist' = IF last'.res.kind \in FoundKinds
               THEN Noted(hist,
                          (IF Has(active', last'.res.fid)
                           THEN Get(active', last'.res.fid)
                           ELSE Get(expiring', last'.res.fid))["id"],
                          p.tcp, last'.res.kind, last'.res.rev, calls')
               ELSE hist

InitTcp ==
    /\ \E ch \in TcpChains : InitObserver(ch)
    /\ irq = "none"
    /\ irq_fired = "False"
    /\ irq_pending = 0
    /\ eof = FALSE
    /\ nread = 0
    /\ flowqueue = << >>
    /\ purge_interval = 0
    /\ pass = 0
    /\ pc = "api"

NextTcp == \E p \in TcpPackets : TcpPacket(p)

SpecTcp == InitTcp /\ [][NextTcp]_vars

----------------------------------------------------------------------------
(* Specification SpecRunTcp: run_flow_enqueuer(flowqueue) of an Observer   *)
(* configured with the reference TCP chain, on a trace of at most MaxRun   *)
(* TCP packets of one connection.                                          *)

RunTcpPackets ==
    {Pkt(h, t, Tcp(f, c), "true", "true") :
        h \in {HdrX, Reverse(HdrX)}, t \in {0, 6},
        f \in {FlagSYN, FlagSYNACK, FlagACK}, c \in Connected}

InitRunTcp ==
    /\ InitObserver(TcpChain)
    /\ irq = "none"
    /\ irq_fired = "False"
    /\ irq_pending = 0
    /\ eof = FALSE
    /\ nread = 0
    /\ flowqueue = << >>
    /\ purge_interval = 0
    /\ pass = 0
    /\ pc = "loop"

NextRunTcp ==
    \/ \E p \in RunTcpPackets : RunReadPacket(p)
    \/ RunEndOfTrace
    \/ RunPutFlow
    \/ RunShutdown

SpecRunTcp == InitRunTcp /\ [][NextRunTcp]_vars

----------------------------------------------------------------------------
(* Specification SpecChains: _next_packet on an observer whose IP chain    *)
(* holds a callback that may return False and then basic_count, and whose  *)
(* transport chains hold one callback.                                     *)

CountChains ==
    [new_flow |-> <<"basic_flow">>, ip4 |-> <<"user_pkt", "basic_count">>,
     ip6 |-> <<"user_pkt", "basic_count">>, tcp |-> <<"user_pkt">>,
     udp |-> <<"user_pkt">>, l4 |-> << >>]

ChainsHeaders == {HdrX, Reverse(HdrX), HdrUdp}

ChainsPackets ==
    {Pkt(h, t, NoTcp, "true", k) :
        h \in ChainsHeaders, t \in {t \in TimeStamps : t <= 6}, k \in Answers}

ChainsPacket(p) == NextPacketCall(p, MaxChains) /\ UNCHANGED hist

InitChains ==
    /\ InitObserver(CountChains)
    /\ irq = "none"
    /\ irq_fired = "False"
    /\ irq_pending = 0
    /\ eof = FALSE
    /\ nread = 0
    /\ flowqueue = << >>
    /\ purge_interval = 0
    /\ pass = 0
    /\ pc = "api"

NextChains == \E p \in ChainsPackets : ChainsPacket(p)

SpecChains == InitChains /\ [][NextChains]_vars

----------------------------------------------------------------------------
(* Properties.                                                             *)

\* the records a table or queue holds, by their identity
Ids(recs) == {recs[i]["id"] : i \in 1..Len(recs)}

\* how often the record with identity id was put on the output channel
Puts(id) ==
    Cardinality({i \in 1..Len(flowqueue) :
                    /\ flowqueue[i] # SHUTDOWN_SENTINEL
                    /\ flowqueue[i]["id"] = id})

\* C1: when run_flow_enqueuer has ended, by returning or by an exception
\* leaving it, every record that was ever inserted into active has been put
\* on the output channel exactly once.
C1_EveryFlowPutOnce ==
    pc \in {"done", "crashed"} => \A id \in 1..ct_flow : Puts(id) = 1

\* the keys of the two flow tables
TableKeys == KeySet(active) \cup KeySet(expiring)

\* a table holds a key once
Unique(t) == \A i, j \in 1..Len(t) : t[i].key = t[j].key => i = j

\* C2: in every reachable state no flow key is in more than one of the
\* tables active, expiring and ignored, and none is twice in one of them.
C2_KeyInOneTable ==
    /\ KeySet(active) \cap KeySet(expiring) = {}
    /\ KeySet(active) \cap ignored = {}
    /\ KeySet(expiring) \cap ignored = {}
    /\ Unique(active)
    /\ Unique(expiring)

\* a key has just been moved to expiring while active and ignored hold others
C2_Witness ==
    /\ last.op = "complete"
    /\ last.res.kind = "moved"
    /\ Has(expiring, last.arg)
    /\ KeySet(active) # {}
    /\ ignored # {}

\* headers of every kind of key: with ports, without, IPv4 and IPv6
KeyHeaders == {HdrX, HdrY, HdrZ, HdrUdp, HdrIcmp, Hdr6}

\* the forward and the reverse key of a header are the reverse and the forward
\* key of the header travelling the other way
KeysSwapped ==
    \A h \in KeyHeaders :
        /\ flow_ids(Reverse(h))[1] = flow_ids(h)[2]
        /\ flow_ids(Reverse(h))[2] = flow_ids(h)[1]

\* the pairs of keys of the flows of specification Spec
ApiKeys == {flow_ids(h) : h \in ApiHeaders}

\* the step is a call of _next_packet that computed the keys of its packet
PacketStep == last'.op = "packet" /\ nread' # nread /\ last'.res.ffid # ""

\* the key under which a table holds the record with identity id
KeyOf(t, id) == t[CHOOSE i \in 1..Len(t) : t[i].rec["id"] = id].key

\* the tables a packet is looked up in hold record id under one of its keys:
\* the packet resolves to that record and no flow is created
ResolvesTo(t, id) ==
    KeyOf(t, id) \in {last'.res.ffid, last'.res.rfid}
        => /\ last'.res.fid = KeyOf(t, id)
           /\ ct_flow' = ct_flow

\* C3: the forward key of a packet is the reverse key of the packet of the
\* same flow travelling the other way, and conversely; the two keys of one
\* flow are never both in active or expiring; a packet of either direction
\* resolves to the record its flow has in active or expiring.
C3_DirectionIndependent ==
    /\ []KeysSwapped
    /\ [](\A k \in ApiKeys :
            k[1] # k[2] => ~(k[1] \in TableKeys /\ k[2] \in TableKeys))
    /\ [][PacketStep =>
            /\ \A id \in Ids(Recs(active)) : ResolvesTo(active, id)
            /\ \A id \in Ids(Recs(expiring)) \cap Ids(Recs(expiring')) :
                    ResolvesTo(expiring, id)]_vars

\* a packet has been resolved through its reverse key to an expiring record
C3_Witness ==
    /\ last.op = "packet"
    /\ last.res.kind = "expiring_rev"
    /\ last.res.ffid # last.res.rfid

\* C4: a key vetoed by a new-flow callback is in neither flow table, nor is
\* the key of the other direction; a packet with either key is dropped with no
\* callback run, no record created and the tables left alone; the key stays
\* in ignored until flush.
C4_VetoedFlowDropped ==
    /\ [](\A k \in ApiKeys :
            k[1] \in ignored => k[1] \notin TableKeys /\ k[2] \notin TableKeys)
    /\ [][PacketStep /\ (last'.res.ffid \in ignored \/ last'.res.rfid \in ignored)
            => /\ last'.res.kind = "ignored"
               /\ calls' = << >>
               /\ ct_flow' = ct_flow
               /\ active' = active
               /\ KeySet(expiring') \subseteq KeySet(expiring)
               /\ ignored' = ignored]_vars
    /\ [][last'.op # "flush" => ignored \subseteq ignored']_vars

\* a packet has been dropped because its reverse key is ignored
C4_Witness ==
    /\ last.op = "packet"
    /\ last.res.kind = "ignored"
    /\ last.res.rfid \in ignored
    /\ last.res.ffid \notin ignored
    /\ ct_pkt > 1

\* C5: a timer scheduled for time T has not fired while the packet clock
\* is at most T, has fired once the clock has passed T, at a clock value
\* greater than T, and has fired at most once.
C5_TimerFiresAfterT ==
    \A i \in 1..Len(tlog) :
        /\ tlog[i].n <= 1
        /\ tlog[i].n = 1 => tlog[i].at > tlog[i].time
        /\ (pt > tlog[i].time /\ pc # "hung") => tlog[i].n = 1

\* C6: a call of _flow_complete on a key that is not in active, as a second
\* call on one key is, leaves active, expiring, the timer queue and the
\* emission queue as they are and schedules no timer; no record is in the
\* emission queue twice.
C6_CompleteIdempotent ==
    /\ [][(last'.op = "complete" /\ ~Has(active, last'.arg))
            => UNCHANGED <<active, expiring, tq, emitted, tlog>>]_vars
    /\ [](\A i, j \in 1..Len(emitted) :
            emitted[i]["id"] = emitted[j]["id"] => i = j)

\* _flow_complete has been called on a key it had moved to expiring before
C6_Witness ==
    /\ last.op = "complete"
    /\ last.res.kind = "absent"
    /\ Has(expiring, last.arg)
    /\ \E i \in 1..Len(tq) : tq[i].fid = last.arg

\* a timer for key fid at time t is in the queue
Scheduled(q, fid, t) == \E i \in 1..Len(q) : q[i].fid = fid /\ q[i].time = t

\* C7: purge_idle(timeout) moves exactly the active flows idle for more than
\* timeout to expiring, each with a timer, and leaves every other active flow
\* in active with its record unchanged.
C7_PurgeIdleExact ==
    [][last'.op = "purge" =>
        \A i \in 1..Len(active) :
            IF pt - active[i].rec["last"] > last'.arg
            THEN /\ ~Has(active', active[i].key)
                 /\ Has(expiring', active[i].key)
                 /\ Get(expiring', active[i].key) = active[i].rec
                 /\ Scheduled(tq', active[i].key, pt + DefaultDelay)
            ELSE /\ Has(active', active[i].key)
                 /\ Get(active', active[i].key) = active[i].rec]_vars

\* the sentinel is at these places of the output channel
Sentinels == {i \in 1..Len(flowqueue) : flowqueue[i] = SHUTDOWN_SENTINEL}

\* C8: the sentinel is put when the emission queue and the tables active and
\* expiring are empty; once run_flow_enqueuer has returned the output channel
\* holds it exactly once, as its last element; it is not put before.
C8_SentinelOnceAndLast ==
    /\ pc \in {"shutdown", "done"}
            => Len(emitted) = 0 /\ Len(active) = 0 /\ Len(expiring) = 0
    /\ pc = "done" => Sentinels = {Len(flowqueue)}
    /\ pc # "done" => Sentinels = {}

\* a cancelled run has returned after delivering a flow and the sentinel
C8_Witness ==
    /\ pc = "done"
    /\ irq_fired = "True"
    /\ Len(flowqueue) >= 2
    /\ ~eof

\* the records of the two flow tables
TableRecs == Recs(active) \o Recs(expiring)

\* C9: a record set up by tcp_setup whose packets so far are SYN (forward),
\* then SYN+ACK (reverse), then ACK (forward) has seen no callback raise;
\* its tcp_connected is True after the ACK and False before it.
C9_HandshakeConnects ==
    \A i \in 1..Len(TableRecs) :
        (/\ chains = TcpChain
         /\ TableRecs[i]["id"] <= Len(hist)
         /\ hist[TableRecs[i]["id"]].stage \in {"syn", "synack", "ack"})
            => /\ ~hist[TableRecs[i]["id"]].err
               /\ TableRecs[i]["tcp_connected"]
                      = (hist[TableRecs[i]["id"]].stage = "ack")

\* the record the last packet was dispatched for, and its history
LastRec == RecOf(Obs, last.res.fid)

LastHist == hist[LastRec["id"]]

\* tcp_complete ran for the last packet and returned ret
Completed(ret) ==
    /\ last.op = "packet"
    /\ last.res.kind \in FoundKinds
    /\ Returned(calls, "tcp_complete", ret)

\* C10: tcp_complete returns false for a packet exactly when, that packet
\* counted, it has been given a FIN of each direction or an RST of either;
\* the flow is then in expiring, and still active when it returned true for
\* a packet of an active flow; having returned false for a record it does
\* not return true for it again.
C10_CompleteOnFinFinOrRst ==
    /\ Completed(FALSE) =>
            /\ LastHist.fin = {"fwd", "rev"} \/ LastHist.rst # {}
            /\ Has(expiring, last.res.fid)
            /\ ~Has(active, last.res.fid)
    /\ Completed(TRUE) =>
            /\ ~(LastHist.fin = {"fwd", "rev"} \/ LastHist.rst # {})
            /\ last.res.kind \in {"new", "active_fwd", "active_rev"}
                    => Has(active, last.res.fid)
    /\ \A i \in 1..Len(hist) : ~hist[i].undone

\* the second FIN, of the direction other than the first, has just moved a
\* flow that saw no RST to expiring
C10_Witness ==
    /\ Completed(FALSE)
    /\ LastHist.fin = {"fwd", "rev"}
    /\ LastHist.rst = {}
    /\ last.res.kind = "active_rev"
    /\ Has(expiring, last.res.fid)

\* the timers ever scheduled for key k, as places of the history
TimersOf(k) == {i \in 1..Len(tlog) : tlog[i].fid = k}

\* the time of the timer scheduled when the record now under k was completed
ExpiryTime(k) ==
    tlog[CHOOSE i \in TimersOf(k) : \A j \in TimersOf(k) : j <= i].time

\* the timers of the queue q that are for key k
QueuedFor(q, k) == {q[i].id : i \in {j \in 1..Len(q) : q[j].fid = k}}

\* _flow_complete on a key in active moves the record and schedules one timer
C11_Moved ==
    (last'.op = "complete" /\ Has(active, last'.arg)) =>
        /\ ~Has(active', last'.arg)
        /\ Has(expiring', last'.arg)
        /\ Get(expiring', last'.arg) = Get(active, last'.arg)
        /\ Len(tlog') = Len(tlog) + 1
        /\ tlog'[Len(tlog')].fid = last'.arg
        /\ tlog'[Len(tlog')].time = pt + DefaultDelay
        /\ Scheduled(tq', last'.arg, pt + DefaultDelay)

\* an expiring record stays where it is while the clock has not passed the
\* time of its timer, unless flush is called
C11_Stays ==
    \A i \in 1..Len(expiring) :
        (last'.op # "flush" /\ pt' <= ExpiryTime(expiring[i].key)) =>
            /\ Has(expiring', expiring[i].key)
            /\ Get(expiring', expiring[i].key)["id"] = expiring[i].rec["id"]
            /\ expiring[i].rec["id"] \notin Ids(emitted')

\* a packet of an expiring flow, in that window, resolves to its record
C11_Resolves ==
    \A i \in 1..Len(expiring) :
        (/\ PacketStep
         /\ expiring[i].key \in {last'.res.ffid, last'.res.rfid}
         /\ pt' <= ExpiryTime(expiring[i].key)) =>
            /\ last'.res.fid = expiring[i].key
            /\ ct_flow' = ct_flow
            /\ Has(expiring', expiring[i].key)
            /\ Get(expiring', expiring[i].key)["last"] = pt'
            /\ Len(tlog') = Len(tlog)
            /\ QueuedFor(tq', expiring[i].key) = QueuedFor(tq, expiring[i].key)

\* a timer that fires while its key is in expiring emits the record
C11_Emits ==
    \A i \in 1..Len(tlog) :
        (tlog'[i].n > tlog[i].n /\ Has(expiring, tlog[i].fid)) =>
            /\ Get(expiring, tlog[i].fid)["id"] \in Ids(emitted')
            /\ Get(expiring, tlog[i].fid)["id"] \notin Ids(Recs(expiring'))

\* C11: _flow_complete at clock c on a key in active moves the record to
\* expiring and schedules one timer for c + 5; until the clock passes c + 5 or
\* flush is called the record stays in expiring, unemitted, and packets of
\* the flow resolve to it, update its last, create no flow and schedule no
\* timer; a timer firing with its key in expiring emits the record and
\* removes it from expiring.
C11_GracePeriod ==
    [][C11_Moved /\ C11_Stays /\ C11_Resolves /\ C11_Emits]_vars

\* the records at places a..b of the emission queue q, by identity
IdsAt(q, a, b) == {q[i]["id"] : i \in a..b}

\* C12: flush appends to the emission queue the records of expiring, each
\* once, and after them the records of active, each once; the records
\* already queued keep their places; active, expiring and ignored are empty
\* afterwards.
C12_FlushEmitsAll ==
    [][last'.op = "flush" =>
        /\ Len(emitted') = Len(emitted) + Len(expiring) + Len(active)
        /\ SubSeq(emitted', 1, Len(emitted)) = emitted
        /\ IdsAt(emitted', Len(emitted) + 1, Len(emitted) + Len(expiring))
              = Ids(Recs(expiring))
        /\ IdsAt(emitted', Len(emitted) + Len(expiring) + 1, Len(emitted'))
              = Ids(Recs(active))
        /\ \A i \in 1..Len(expiring) : \E j \in 1..Len(emitted') :
              emitted'[j] = expiring[i].rec
        /\ \A i \in 1..Len(active) : \E j \in 1..Len(emitted') :
              emitted'[j] = active[i].rec
        /\ Len(active') = 0
        /\ Len(expiring') = 0
        /\ ignored' = {}]_vars

\* flush has emitted the flow created second, expiring, before the flow
\* created first, active
C12_Witness ==
    /\ last.op = "flush"
    /\ Len(emitted) = 2
    /\ emitted[1]["id"] = 2
    /\ emitted[2]["id"] = 1
    /\ Len(tlog) = 1
    /\ tlog[1].n = 0

\* a step of run_flow_enqueuer with the interrupt seen: no packet is counted,
\* the clock stands, no timer fires or is scheduled, no flow is created or
\* ignored, no callback runs, and the tables change by flush only
C13_Cancelled ==
    irq_fired' = "True" =>
        /\ UNCHANGED <<ct_pkt, pt, tq, tlog, ct_flow, ct_nonip, ct_shortkey, ct_ignored>>
        /\ calls' = << >>
        /\ (active' = active /\ expiring' = expiring)
              \/ (Len(active') = 0 /\ Len(expiring') = 0
                    /\ Len(emitted') = Len(emitted) + Len(expiring) + Len(active))

\* C13: an interrupt once seen stays seen; from the packet whose poll saw it
\* on, no packet is counted, advances the clock, fires a timer or reaches
\* _get_flow or a chain, and the tables change by flush only; the run then
\* delivers the remaining records and the sentinel and returns.
C13_CancellationSticky ==
    /\ [][irq_fired = "True" => irq_fired' = "True"]_vars
    /\ [][C13_Cancelled]_vars
    /\ [](pc = "done" => \A id \in 1..ct_flow : Puts(id) = 1)
    /\ (irq_fired = "True") ~> (pc = "done")

\* a cancelled run has returned: the packet whose poll saw the interrupt and
\* a later one were read and not counted, and records were delivered
C13_Witness ==
    /\ pc = "done"
    /\ irq_fired = "True"
    /\ nread >= ct_pkt + 2
    /\ ct_flow >= 1
    /\ Len(flowqueue) = ct_flow + 1

\* the per-packet callbacks _next_packet called on its packet, in order
PacketFns == {"tcp_handshake", "tcp_complete", "basic_count", "user_pkt"}

IsPacketFn(c) == c.fn \in PacketFns

Called(log) == [i \in 1..Len(SelectSeq(log, IsPacketFn)) |-> SelectSeq(log, IsPacketFn)[i].fn]

\* C14: a packet of a flow is given to every callback of its IP chain and
\* then of its transport chain, in order, also after one of them returned
\* False
C14_EveryCallbackInvoked ==
    [][\A p \in ChainsPackets :
         (ChainsPacket(p) /\ last'.res.kind \in FoundKinds /\ last'.exc = "")
            => Called(calls') = IpChain(Obs, p) \o L4Chain(Obs, p)]_vars

\* C15: with purge_interval = N > 0, run_flow_enqueuer calls purge_idle
\* after the put of a record exactly when the count of records put so far
\* is a multiple of N, whatever the count of flows created
C15_PurgeEveryNEmitted ==
    [][last'.op = "put" =>
         ((last'.arg = "purge_idle") <=>
             (purge_interval # 0 /\ Len(flowqueue') % purge_interval = 0))]_vars

\* the emission queue q holds no record twice
EmittedOnce(q) == \A i, j \in 1..Len(q) : q[i]["id"] = q[j]["id"] => i = j

\* C16: a record appended to the emission queue is from then on in neither
\* active nor expiring and keeps its place and its fields through every
\* later packet, callback, purge_idle, flush and timer; a packet that is
\* dispatched is dispatched for a record of the tables, and a flow created
\* by a packet is a record the emission queue does not hold.
C16_EmittedUntouched ==
    [][/\ Len(emitted') >= Len(emitted)
       /\ SubSeq(emitted', 1, Len(emitted)) = emitted
       /\ EmittedOnce(emitted')
       /\ Ids(emitted') \cap Ids(Recs(active') \o Recs(expiring')) = {}
       /\ (last'.op = "packet" /\ last'.res.kind \in FoundKinds /\ last'.exc = "")
             => /\ Has(active', last'.res.fid) \/ Has(expiring', last'.res.fid)
                /\ (IF Has(active', last'.res.fid)
                    THEN Get(active', last'.res.fid)
                    ELSE Get(expiring', last'.res.fid))["id"] \notin Ids(emitted')
       /\ (last'.op = "packet" /\ last'.res.kind = "new")
             => /\ ct_flow' = ct_flow + 1
                /\ ct_flow' \notin Ids(emitted')
                /\ \A i \in 1..Len(emitted') : emitted'[i]["id"] < ct_flow']_vars

\* the timer of the first flow has fired and emitted its record, and the
\* packet that made it fire has the key of that flow: it created the second
C16_Witness ==
    /\ last.op = "packet"
    /\ last.res.kind = "new"
    /\ ct_flow = 2
    /\ Len(emitted) = 1
    /\ emitted[1]["id"] = 1
    /\ Len(tlog) = 1
    /\ tlog[1].fid = last.res.fid
    /\ tlog[1].n = 1
    /\ Has(active, last.res.fid)
    /\ Get(active, last.res.fid)["id"] = 2

\* C17: for a packet _get_flow resolves to a record, the flag it returns is
\* true exactly when the record was found under the reverse key; it is false
\* for a record found under the forward key and for a flow just created,
\* also when the two keys of the packet are equal.
C17_ReverseIffReverseHit ==
    (last.op = "packet" /\ last.res.kind \in FoundKinds)
        => (last.res.rev <=> last.res.kind \in {"active_rev", "expiring_rev"})

\* timer i is ahead of timer j: scheduled for an earlier time, or for the
\* same time and inserted first
Ahead(i, j) ==
    \/ tlog[i].time < tlog[j].time
    \/ tlog[i].time = tlog[j].time /\ i < j

\* C18: the timer queue takes every timer without an error, also one whose
\* time equals that of a timer it holds; no timer fires before a timer that
\* is ahead of it by time or, at equal times, by insertion; every timer has
\* fired, and emitted its flow, once the clock has passed its time.
C18_EqualTimesInInsertionOrder ==
    /\ last.exc # "TypeError"
    /\ pc # "hung"
    /\ Len(tq) = Cardinality({i \in 1..Len(tlog) : tlog[i].n = 0})
    /\ \A i, j \in 1..Len(tlog) :
          (Ahead(i, j) /\ tlog[j].n > 0)
              => (tlog[i].n > 0 /\ tlog[i].at <= tlog[j].at)
    /\ \A i \in 1..Len(tlog) : pt > tlog[i].time => tlog[i].n = 1
    /\ Len(emitted) = Cardinality({i \in 1..Len(tlog) : tlog[i].n > 0})

\* a callback of a chain raised while the last packet was processed
CallbackRaised == \E i \in 1..Len(calls) : calls[i].exc # ""

\* C19: an exception raised by a callback of the new-flow chain or of a
\* per-packet chain does not leave run_flow_enqueuer: the loop goes on with
\* the next packet, no key is in two tables or twice in one, and when the
\* run has ended the tables are flushed and the sentinel is the last element
\* of the output channel.
C19_CallbackFailureContained ==
    /\ CallbackRaised => pc = "loop"
    /\ pc # "crashed"
    /\ C2_KeyInOneTable
    /\ pc = "done" => /\ Len(active) = 0
                      /\ Len(expiring) = 0
                      /\ Len(emitted) = 0
                      /\ Sentinels = {Len(flowqueue)}

\* the field f of record r holds the flags of a SYN
SynSeen(r, f) == f \in DOMAIN r /\ r[f] # None

\* the step leaves the field f of record r, once it holds a value, as it is
SynKept(r, f) ==
    SynSeen(r, f) =>
        \A j \in 1..Len(TableRecs') :
            TableRecs'[j]["id"] = r["id"]
                => (f \in DOMAIN TableRecs'[j] /\ TableRecs'[j][f] = r[f])

\* C20: once fwd_syn_flags, or rev_syn_flags, of a record holds the flags of
\* a SYN, no later packet changes it, whatever its direction and flags.
C20_FirstSynAuthoritative ==
    [][\A i \in 1..Len(TableRecs) :
         /\ SynKept(TableRecs[i], "fwd_syn_flags")
         /\ SynKept(TableRecs[i], "rev_syn_flags")]_vars

\* C21: under any interleaving of packets, _flow_complete, purge_idle and
\* flush, a record that a timer firing in _tick(t) emits was moved to
\* expiring at a clock value c with t > c + delay: a timer left in the queue
\* by a flow that flush has emitted does not emit a later flow of the same
\* key before that flow's own delay has elapsed.
C21_NoStaleTimerEmission ==
    [][last'.op = "packet" =>
         \A i \in 1..Len(expiring) :
             expiring[i].rec["id"] \in Ids(emitted')
                 => pt' > ExpiryTime(expiring[i].key)]_vars

==========================================================================
